---- MODULE Spec2Model ----
(***************************************************************************)
(* State-machine model of src/src/train.py: smooth_labels, train_epoch,    *)
(* validate and training_loop.  The networks, the criterion, the data      *)
(* loaders, the optimizers and the schedulers are collaborators that       *)
(* train.py receives as arguments; the model keeps of them what train.py   *)
(* does to them:                                                           *)
(*   - parameters are a version number that an optimizer step advances,    *)
(*   - the .grad fields of a network are the set of losses whose backward  *)
(*     pass has accumulated into them since the last zero_grad,            *)
(*   - a loss is a value drawn from 0..MaxLoss together with the set of    *)
(*     networks its autograd graph reaches,                                *)
(*   - a data loader is its length; the size of each batch is drawn when   *)
(*     the batch is yielded.                                               *)
(* Label values are fixed-point numbers: the real number x is the integer  *)
(* x * Scale.                                                              *)
(* A local name of train_epoch, validate or training_loop holds its value  *)
(* from the statement that binds it to the last statement that reads it;   *)
(* every such name is rebound before it is read again, and the model keeps *)
(* it unbound (<<>>, or 0 for batch_size) in between.                      *)
(***************************************************************************)
EXTENDS Integers, Sequences, FiniteSets

\* ---------------------------------------------------------------- bounds
MaxBatches == 2      \* a loader yields 0..MaxBatches batches
MaxBatchSize == 1    \* a batch holds 1..MaxBatchSize samples
RandLevels == 2      \* torch.rand draws r / RandLevels, r in 0..RandLevels-1
MaxLoss == 1         \* criterion values are drawn from 0..MaxLoss
MaxLen == 3          \* longest tensor passed to smooth_labels on its own

\* ------------------------------------------------------------- constants
N_EPOCHS == 2
VALIDATION_INTERVAL == N_EPOCHS \div N_EPOCHS
SAVE_INTERVAL == N_EPOCHS \div 1
examples_to_generate == 3

\* Fixed point: 1.0 is Scale, and a draw r / RandLevels of torch.rand is 100 * r.
Scale == 100 * RandLevels
RandDraws == {100 * r : r \in 0..(RandLevels - 1)}
ones(n) == [k \in 1..n |-> Scale]
zeros(n) == [k \in 1..n |-> 0]

VARIABLES
  pc,               \* position in training_loop / train_epoch / validate
  epoch,            \* loop variable of training_loop (-1 before the loop)
  train_loader,     \* len(train_loader)
  val_loader,       \* len(val_loader)
  i,                \* index of the batch being processed in the running loop
  batch_size,
  real_labels,
  fake_labels,
  fake_audio_data,  \* <<>> or <<[gen, attached]>>
  g_loss,           \* <<>> or <<[val, graph, tag]>>
  d_loss,
  total_g_loss,
  total_d_loss,
  train_ret,        \* <<>> or <<train_g_loss, train_d_loss>>, each [num, den]
  val_ret,
  gParams,          \* generator parameters: number of optimizer_G steps applied
  dParams,
  gGrad,            \* losses accumulated in the generator's .grad fields
  dGrad,
  gSched,           \* scheduler_G.step() calls
  dSched,
  gMode,            \* "train" / "eval"
  dMode,
  grad_enabled,     \* FALSE inside torch.no_grad()
  saved,            \* the save_model calls made so far
  plotted,          \* graph_spectrogram calls made so far
  events,           \* history: the events of the current training batch
  phaseLog,         \* history: the phases completed/entered, with their epoch
  valForwards,      \* history: forward passes of the current validation transition
  seen_g,           \* history: sum of the generator losses computed in this call
  seen_d,
  seen_n,           \* history: number of batches whose losses were computed
  n_smooth,         \* history: calls of smooth_labels
  sl_in,            \* argument of a stand-alone smooth_labels call
  sl_out            \* its result

loopVars == <<pc, epoch, train_loader, val_loader, i, batch_size, real_labels,
              fake_labels, fake_audio_data, g_loss, d_loss, total_g_loss,
              total_d_loss, train_ret, val_ret, gParams, dParams, gGrad, dGrad,
              gSched, dSched, gMode, dMode, grad_enabled, saved, plotted, events,
              phaseLog, valForwards, seen_g, seen_d, seen_n, n_smooth>>
vars == <<loopVars, sl_in, sl_out>>

\* ------------------------------------------------------- smooth_labels
\* smooth_labels with the direction taken per element
smooth_labels_PerElement(tensor, rand) ==
  [k \in 1..Len(tensor) |->
     IF tensor[k] = Scale THEN tensor[k] + (2 * rand[k]) \div 100
                          ELSE tensor[k] - (2 * rand[k]) \div 100]

\* tensor + amount * rand  or  tensor - amount * rand, amount = 0.02 = 2/100;
\* the branch is taken on element 0 (index 1 here) alone.
smooth_labels(tensor, rand) ==
  IF tensor[1] = Scale
    THEN [k \in 1..Len(tensor) |-> tensor[k] + (2 * rand[k]) \div 100]
    ELSE [k \in 1..Len(tensor) |-> tensor[k] - (2 * rand[k]) \div 100]

Noise(n) == [1..n -> RandDraws]

\* Autograd: a loss computed with gradient tracking enabled reaches the
\* discriminator it was evaluated by, and the generator when the fake batch it
\* was evaluated on is still attached to the generator's graph.
Graph(fake) ==
  IF ~grad_enabled THEN {}
  ELSE IF fake.attached THEN {"G", "D"} ELSE {"D"}

\* loss.backward(): the loss is accumulated into the .grad of every network
\* its graph reaches.
Accumulated(grad, net, loss) ==
  IF net \in loss.graph THEN grad \cup {loss.tag} ELSE grad

\* total += loss.item()
AddLoss(total, loss) == total + loss.val

\* total / len(dataloader), kept as an exact fraction
Mean(total, n) == [num |-> total, den |-> n]

\* --------------------------------------------------------------- groups
loaders == <<train_loader, val_loader>>
labels == <<batch_size, real_labels, fake_labels>>
losses == <<g_loss, d_loss>>
totals == <<total_g_loss, total_d_loss>>
rets == <<train_ret, val_ret>>
params == <<gParams, dParams>>
grads == <<gGrad, dGrad>>
scheds == <<gSched, dSched>>
modes == <<gMode, dMode, grad_enabled>>
outs == <<saved, plotted>>
seen == <<seen_g, seen_d, seen_n>>
sl == <<sl_in, sl_out>>

\* ----------------------------------------------------------------- Init
InitLoop ==
  /\ pc = "loop"
  /\ epoch = -1
  /\ i = 0
  /\ batch_size = 0
  /\ real_labels = <<>>
  /\ fake_labels = <<>>
  /\ fake_audio_data = <<>>
  /\ g_loss = <<>>
  /\ d_loss = <<>>
  /\ total_g_loss = 0
  /\ total_d_loss = 0
  /\ train_ret = <<>>
  /\ val_ret = <<>>
  /\ gParams = 0
  /\ dParams = 0
  /\ gGrad = {}
  /\ dGrad = {}
  /\ gSched = 0
  /\ dSched = 0
  /\ gMode = "train"
  /\ dMode = "train"
  /\ grad_enabled = TRUE
  /\ saved = <<>>
  /\ plotted = <<>>
  /\ events = <<>>
  /\ phaseLog = <<>>
  /\ valForwards = {}
  /\ seen_g = 0
  /\ seen_d = 0
  /\ seen_n = 0
  /\ n_smooth = 0

Init ==
  /\ InitLoop
  /\ train_loader \in 0..MaxBatches
  /\ val_loader \in 0..MaxBatches
  /\ sl_in = <<>>
  /\ sl_out = <<>>

\* ---------------------------------------------------------- train_epoch
\* lines 82-84, and the iterator of line 86 is created
TrainEnter ==
  /\ pc = "t_enter"
  /\ gMode' = "train"
  /\ dMode' = "train"
  /\ total_g_loss' = 0
  /\ total_d_loss' = 0
  /\ i' = 0
  /\ seen_g' = 0
  /\ seen_d' = 0
  /\ seen_n' = 0
  /\ pc' = "t_iter"
  /\ UNCHANGED <<epoch, loaders, labels, fake_audio_data, losses, rets, params,
                 grads, scheds, grad_enabled, outs, events, phaseLog,
                 valForwards, n_smooth, sl>>

\* lines 86-91: the loader yields batch i; the labels are built and smoothed
TrainIter ==
  /\ pc = "t_iter"
  /\ i < train_loader
  /\ \E b \in 1..MaxBatchSize :
       \E nr \in Noise(b), nf \in Noise(b) :
         /\ batch_size' = b
         /\ real_labels' = smooth_labels(ones(b), nr)
         /\ fake_labels' = smooth_labels(zeros(b), nf)
  /\ n_smooth' = n_smooth + 2
  /\ events' = <<>>
  /\ pc' = "t_gzero"
  /\ UNCHANGED <<epoch, loaders, i, fake_audio_data, losses, totals, rets,
                 params, grads, scheds, modes, outs, phaseLog, valForwards,
                 seen, sl>>

\* line 86: the loader is exhausted
TrainLoopExit ==
  /\ pc = "t_iter"
  /\ i >= train_loader
  /\ pc' = "t_ret"
  /\ UNCHANGED <<epoch, loaders, i, labels, fake_audio_data, losses, totals,
                 rets, params, grads, scheds, modes, outs, events, phaseLog,
                 valForwards, seen, n_smooth, sl>>

\* line 94
GZeroGrad ==
  /\ pc = "t_gzero"
  /\ gGrad' = {}
  /\ pc' = "t_gen"
  /\ UNCHANGED <<epoch, loaders, i, labels, fake_audio_data, losses, totals,
                 rets, params, dGrad, scheds, modes, outs, events, phaseLog,
                 valForwards, seen, n_smooth, sl>>

\* lines 95-96: z is drawn and the generator, as it is now, makes the fake batch
GenFake ==
  /\ pc = "t_gen"
  /\ fake_audio_data' = <<[gen |-> gParams, epoch |-> epoch, batch |-> i,
                           attached |-> grad_enabled]>>
  /\ events' = Append(events, "generate")
  /\ pc' = "t_gloss"
  /\ UNCHANGED <<epoch, loaders, i, labels, losses, totals, rets, params, grads,
                 scheds, modes, outs, phaseLog, valForwards, seen, n_smooth, sl>>

\* lines 99-101: g_loss = criterion(discriminator(fake_audio_data), real_labels)
GLoss ==
  /\ pc = "t_gloss"
  /\ \E v \in 0..MaxLoss :
       /\ g_loss' = <<[val |-> v, graph |-> Graph(fake_audio_data[1]),
                       tag |-> <<"g_loss", epoch, i>>]>>
       /\ seen_g' = seen_g + v
  /\ pc' = "t_gback"
  /\ UNCHANGED <<epoch, loaders, i, labels, fake_audio_data, d_loss, totals,
                 rets, params, grads, scheds, modes, outs, events, phaseLog,
                 valForwards, seen_d, seen_n, n_smooth, sl>>

\* line 103: g_loss.backward(retain_graph=True)
GBackward ==
  /\ pc = "t_gback"
  /\ gGrad' = Accumulated(gGrad, "G", g_loss[1])
  /\ dGrad' = Accumulated(dGrad, "D", g_loss[1])
  /\ events' = Append(events, "g_backward")
  /\ pc' = "t_gstep"
  /\ UNCHANGED <<epoch, loaders, i, labels, fake_audio_data, losses, totals,
                 rets, params, scheds, modes, outs, phaseLog, valForwards, seen,
                 n_smooth, sl>>

\* line 104: optimizer_G.step() owns the generator's parameters
GStep ==
  /\ pc = "t_gstep"
  /\ gParams' = gParams + 1
  /\ events' = Append(events, "g_step")
  /\ pc' = "t_gsched"
  /\ UNCHANGED <<epoch, loaders, i, labels, fake_audio_data, losses, totals,
                 rets, dParams, grads, scheds, modes, outs, phaseLog,
                 valForwards, seen, n_smooth, sl>>

\* line 105
GSchedStep ==
  /\ pc = "t_gsched"
  /\ gSched' = gSched + 1
  /\ events' = Append(events, "g_sched")
  /\ pc' = "t_gacc"
  /\ UNCHANGED <<epoch, loaders, i, labels, fake_audio_data, losses, totals,
                 rets, params, grads, dSched, modes, outs, phaseLog,
                 valForwards, seen, n_smooth, sl>>

\* line 106
GAccumulate ==
  /\ pc = "t_gacc"
  /\ total_g_loss' = AddLoss(total_g_loss, g_loss[1])
  /\ g_loss' = <<>>
  /\ pc' = "t_dzero"
  /\ UNCHANGED <<epoch, loaders, i, labels, fake_audio_data, d_loss,
                 total_d_loss, rets, params, grads, scheds, modes, outs, events,
                 phaseLog, valForwards, seen, n_smooth, sl>>

\* line 109 left out
DZeroGrad_Missing ==
  /\ pc = "t_dzero"
  /\ pc' = "t_detach"
  /\ UNCHANGED <<epoch, loaders, i, labels, fake_audio_data, losses, totals,
                 rets, params, grads, scheds, modes, outs, events, phaseLog,
                 valForwards, seen, n_smooth, sl>>

\* line 109
DZeroGrad ==
  /\ pc = "t_dzero"
  /\ dGrad' = {}
  /\ pc' = "t_detach"
  /\ UNCHANGED <<epoch, loaders, i, labels, fake_audio_data, losses, totals,
                 rets, params, gGrad, scheds, modes, outs, events, phaseLog,
                 valForwards, seen, n_smooth, sl>>

\* line 110 as a fresh generator forward for the discriminator
Detach_Regenerate ==
  /\ pc = "t_detach"
  /\ fake_audio_data' = <<[gen |-> gParams, epoch |-> epoch, batch |-> i,
                           attached |-> FALSE]>>
  /\ events' = Append(events, "detach")
  /\ pc' = "t_dloss"
  /\ UNCHANGED <<epoch, loaders, i, labels, losses, totals, rets, params, grads,
                 scheds, modes, outs, phaseLog, valForwards, seen, n_smooth, sl>>

\* line 110: the same fake batch, cut from the generator's graph
Detach ==
  /\ pc = "t_detach"
  /\ fake_audio_data' = <<[fake_audio_data[1] EXCEPT !.attached = FALSE]>>
  /\ events' = Append(events, "detach")
  /\ pc' = "t_dloss"
  /\ UNCHANGED <<epoch, loaders, i, labels, losses, totals, rets, params, grads,
                 scheds, modes, outs, phaseLog, valForwards, seen, n_smooth, sl>>

\* lines 111-118: compute_discrim_loss on the real and the fake batch
DLoss ==
  /\ pc = "t_dloss"
  /\ \E v \in 0..MaxLoss :
       /\ d_loss' = <<[val |-> v, graph |-> Graph(fake_audio_data[1]),
                       tag |-> <<"d_loss", epoch, i>>,
                       fake |-> fake_audio_data[1]]>>
       /\ seen_d' = seen_d + v
  /\ seen_n' = seen_n + 1
  /\ real_labels' = <<>>
  /\ fake_labels' = <<>>
  /\ pc' = "t_dback"
  /\ UNCHANGED <<epoch, loaders, i, batch_size, fake_audio_data, g_loss, totals,
                 rets, params, grads, scheds, modes, outs, events, phaseLog,
                 valForwards, seen_g, n_smooth, sl>>

\* line 120
DBackward ==
  /\ pc = "t_dback"
  /\ gGrad' = Accumulated(gGrad, "G", d_loss[1])
  /\ dGrad' = Accumulated(dGrad, "D", d_loss[1])
  /\ events' = Append(events, "d_backward")
  /\ pc' = "t_dstep"
  /\ UNCHANGED <<epoch, loaders, i, labels, fake_audio_data, losses, totals,
                 rets, params, scheds, modes, outs, phaseLog, valForwards, seen,
                 n_smooth, sl>>

\* line 121: optimizer_D.step() owns the discriminator's parameters
DStep ==
  /\ pc = "t_dstep"
  /\ dParams' = dParams + 1
  /\ events' = Append(events, "d_step")
  /\ pc' = "t_dsched"
  /\ UNCHANGED <<epoch, loaders, i, labels, fake_audio_data, losses, totals,
                 rets, gParams, grads, scheds, modes, outs, phaseLog,
                 valForwards, seen, n_smooth, sl>>

\* line 122
DSchedStep ==
  /\ pc = "t_dsched"
  /\ dSched' = dSched + 1
  /\ events' = Append(events, "d_sched")
  /\ pc' = "t_dacc"
  /\ UNCHANGED <<epoch, loaders, i, labels, fake_audio_data, losses, totals,
                 rets, params, grads, gSched, modes, outs, phaseLog,
                 valForwards, seen, n_smooth, sl>>

\* line 123, and back to line 86 for the next batch
DAccumulate ==
  /\ pc = "t_dacc"
  /\ total_d_loss' = AddLoss(total_d_loss, d_loss[1])
  /\ d_loss' = <<>>
  /\ batch_size' = 0
  /\ fake_audio_data' = <<>>
  /\ i' = i + 1
  /\ pc' = "t_iter"
  /\ UNCHANGED <<epoch, loaders, real_labels, fake_labels, g_loss,
                 total_g_loss, rets, params, grads, scheds, modes, outs, events,
                 phaseLog, valForwards, seen, n_smooth, sl>>

\* line 125, with a loader that yielded batches
TrainReturn ==
  /\ pc = "t_ret"
  /\ train_loader # 0
  /\ train_ret' = <<Mean(total_g_loss, train_loader),
                    Mean(total_d_loss, train_loader)>>
  /\ phaseLog' = Append(phaseLog, <<"train", epoch + 1>>)
  /\ pc' = "print_train"
  /\ UNCHANGED <<epoch, loaders, i, labels, fake_audio_data, losses, totals,
                 val_ret, params, grads, scheds, modes, outs, events,
                 valForwards, seen, n_smooth, sl>>

\* line 125, with an empty loader: ZeroDivisionError leaves training_loop
TrainReturnRaise ==
  /\ pc = "t_ret"
  /\ train_loader = 0
  /\ pc' = "raised"
  /\ UNCHANGED <<epoch, loaders, i, labels, fake_audio_data, losses, totals,
                 rets, params, grads, scheds, modes, outs, events, phaseLog,
                 valForwards, seen, n_smooth, sl>>

\* -------------------------------------------------------------- validate
\* validate entered without fresh totals
ValEnter_KeepTotals ==
  /\ pc = "v_enter"
  /\ gMode' = "eval"
  /\ dMode' = "eval"
  /\ grad_enabled' = FALSE
  /\ i' = 0
  /\ seen_g' = 0
  /\ seen_d' = 0
  /\ seen_n' = 0
  /\ valForwards' = {}
  /\ phaseLog' = Append(phaseLog, <<"validate", epoch + 1>>)
  /\ pc' = "v_iter"
  /\ UNCHANGED <<epoch, loaders, labels, fake_audio_data, losses, totals, rets,
                 params, grads, scheds, outs, events, n_smooth, sl>>

\* validate without torch.no_grad()
ValEnter_GradOn ==
  /\ pc = "v_enter"
  /\ gMode' = "eval"
  /\ dMode' = "eval"
  /\ total_g_loss' = 0
  /\ total_d_loss' = 0
  /\ i' = 0
  /\ seen_g' = 0
  /\ seen_d' = 0
  /\ seen_n' = 0
  /\ valForwards' = {}
  /\ phaseLog' = Append(phaseLog, <<"validate", epoch + 1>>)
  /\ pc' = "v_iter"
  /\ UNCHANGED <<epoch, loaders, labels, fake_audio_data, losses, rets, params,
                 grads, scheds, grad_enabled, outs, events, n_smooth, sl>>

\* validate with smoothed labels
ValIter_Smoothed ==
  /\ pc = "v_iter"
  /\ i < val_loader
  /\ \E b \in 1..MaxBatchSize :
       \E nr \in Noise(b), nf \in Noise(b) :
         /\ batch_size' = b
         /\ real_labels' = smooth_labels(ones(b), nr)
         /\ fake_labels' = smooth_labels(zeros(b), nf)
  /\ n_smooth' = n_smooth + 2
  /\ pc' = "v_gen"
  /\ UNCHANGED <<epoch, loaders, i, fake_audio_data, losses, totals, rets,
                 params, grads, scheds, modes, outs, events, phaseLog,
                 valForwards, seen, sl>>

\* lines 129-133: eval mode, fresh totals, torch.no_grad() entered
ValEnter ==
  /\ pc = "v_enter"
  /\ gMode' = "eval"
  /\ dMode' = "eval"
  /\ total_g_loss' = 0
  /\ total_d_loss' = 0
  /\ grad_enabled' = FALSE
  /\ i' = 0
  /\ seen_g' = 0
  /\ seen_d' = 0
  /\ seen_n' = 0
  /\ valForwards' = {}
  /\ phaseLog' = Append(phaseLog, <<"validate", epoch + 1>>)
  /\ pc' = "v_iter"
  /\ UNCHANGED <<epoch, loaders, labels, fake_audio_data, losses, rets, params,
                 grads, scheds, outs, events, n_smooth, sl>>

\* lines 134-139: the loader yields batch i; the labels are plain ones and zeros
ValIter ==
  /\ pc = "v_iter"
  /\ i < val_loader
  /\ \E b \in 1..MaxBatchSize :
       /\ batch_size' = b
       /\ real_labels' = ones(b)
       /\ fake_labels' = zeros(b)
  /\ pc' = "v_gen"
  /\ UNCHANGED <<epoch, loaders, i, fake_audio_data, losses, totals, rets,
                 params, grads, scheds, modes, outs, events, phaseLog,
                 valForwards, seen, n_smooth, sl>>

\* line 134: the loader is exhausted, and the with block of line 133 is left
ValLoopExit ==
  /\ pc = "v_iter"
  /\ i >= val_loader
  /\ grad_enabled' = TRUE
  /\ pc' = "v_ret"
  /\ UNCHANGED <<epoch, loaders, i, labels, fake_audio_data, losses, totals,
                 rets, params, grads, scheds, gMode, dMode, outs, events,
                 phaseLog, valForwards, seen, n_smooth, sl>>

\* lines 141-142
ValGen ==
  /\ pc = "v_gen"
  /\ fake_audio_data' = <<[gen |-> gParams, epoch |-> epoch, batch |-> i,
                           attached |-> grad_enabled]>>
  /\ valForwards' = valForwards \cup {<<"generator", grad_enabled, "validate">>}
  /\ pc' = "v_gloss"
  /\ UNCHANGED <<epoch, loaders, i, labels, losses, totals, rets, params, grads,
                 scheds, modes, outs, events, phaseLog, seen, n_smooth, sl>>

\* line 144
ValGLoss ==
  /\ pc = "v_gloss"
  /\ \E v \in 0..MaxLoss :
       /\ g_loss' = <<[val |-> v, graph |-> Graph(fake_audio_data[1]),
                       tag |-> <<"val_g_loss", epoch, i>>]>>
       /\ seen_g' = seen_g + v
  /\ valForwards' = valForwards \cup {<<"discriminator", grad_enabled, "validate">>}
  /\ pc' = "v_gacc"
  /\ UNCHANGED <<epoch, loaders, i, labels, fake_audio_data, d_loss, totals,
                 rets, params, grads, scheds, modes, outs, events, phaseLog,
                 seen_d, seen_n, n_smooth, sl>>

\* line 145
ValGAccumulate ==
  /\ pc = "v_gacc"
  /\ total_g_loss' = AddLoss(total_g_loss, g_loss[1])
  /\ g_loss' = <<>>
  /\ pc' = "v_dloss"
  /\ UNCHANGED <<epoch, loaders, i, labels, fake_audio_data, d_loss,
                 total_d_loss, rets, params, grads, scheds, modes, outs, events,
                 phaseLog, valForwards, seen, n_smooth, sl>>

\* lines 146-153
ValDLoss ==
  /\ pc = "v_dloss"
  /\ \E v \in 0..MaxLoss :
       /\ d_loss' = <<[val |-> v, graph |-> Graph(fake_audio_data[1]),
                       tag |-> <<"val_d_loss", epoch, i>>,
                       fake |-> fake_audio_data[1]]>>
       /\ seen_d' = seen_d + v
  /\ seen_n' = seen_n + 1
  /\ real_labels' = <<>>
  /\ fake_labels' = <<>>
  /\ valForwards' = valForwards \cup {<<"discriminator", grad_enabled, "validate">>}
  /\ pc' = "v_dacc"
  /\ UNCHANGED <<epoch, loaders, i, batch_size, fake_audio_data, g_loss, totals,
                 rets, params, grads, scheds, modes, outs, events, phaseLog,
                 seen_g, n_smooth, sl>>

\* line 154, and back to line 134
ValDAccumulate ==
  /\ pc = "v_dacc"
  /\ total_d_loss' = AddLoss(total_d_loss, d_loss[1])
  /\ d_loss' = <<>>
  /\ batch_size' = 0
  /\ fake_audio_data' = <<>>
  /\ i' = i + 1
  /\ pc' = "v_iter"
  /\ UNCHANGED <<epoch, loaders, real_labels, fake_labels, g_loss,
                 total_g_loss, rets, params, grads, scheds, modes, outs, events,
                 phaseLog, valForwards, seen, n_smooth, sl>>

\* line 156, with a loader that yielded batches
ValReturn ==
  /\ pc = "v_ret"
  /\ val_loader # 0
  /\ val_ret' = <<Mean(total_g_loss, val_loader), Mean(total_d_loss, val_loader)>>
  /\ pc' = "print_val"
  /\ UNCHANGED <<epoch, loaders, i, labels, fake_audio_data, losses, totals,
                 train_ret, params, grads, scheds, modes, outs, events, phaseLog,
                 valForwards, seen, n_smooth, sl>>

\* line 156, with an empty loader: ZeroDivisionError leaves training_loop
ValReturnRaise ==
  /\ pc = "v_ret"
  /\ val_loader = 0
  /\ pc' = "raised"
  /\ UNCHANGED <<epoch, loaders, i, labels, fake_audio_data, losses, totals,
                 rets, params, grads, scheds, modes, outs, events, phaseLog,
                 valForwards, seen, n_smooth, sl>>

\* --------------------------------------------------------- training_loop
\* line 172: range(N_EPOCHS) yields the next epoch, which calls train_epoch
LoopNext ==
  /\ pc = "loop"
  /\ epoch + 1 < N_EPOCHS
  /\ epoch' = epoch + 1
  /\ pc' = "t_enter"
  /\ UNCHANGED <<loaders, i, labels, fake_audio_data, losses, totals, rets,
                 params, grads, scheds, modes, outs, events, phaseLog,
                 valForwards, seen, n_smooth, sl>>

\* line 172 with a loop that also ends once a checkpoint was written
LoopExit_Early ==
  /\ pc = "loop"
  /\ (epoch + 1 >= N_EPOCHS \/ epoch >= 0)
  /\ pc' = "done"
  /\ UNCHANGED <<epoch, loaders, i, labels, fake_audio_data, losses, totals,
                 rets, params, grads, scheds, modes, outs, events, phaseLog,
                 valForwards, seen, n_smooth, sl>>

\* line 172: range(N_EPOCHS) is exhausted
LoopExit ==
  /\ pc = "loop"
  /\ epoch + 1 >= N_EPOCHS
  /\ pc' = "done"
  /\ UNCHANGED <<epoch, loaders, i, labels, fake_audio_data, losses, totals,
                 rets, params, grads, scheds, modes, outs, events, phaseLog,
                 valForwards, seen, n_smooth, sl>>

\* lines 186-188: the means are printed
PrintTrain ==
  /\ pc = "print_train"
  /\ train_ret' = <<>>
  /\ pc' = "val_check"
  /\ UNCHANGED <<epoch, loaders, i, labels, fake_audio_data, losses, totals,
                 val_ret, params, grads, scheds, modes, outs, events, phaseLog,
                 valForwards, seen, n_smooth, sl>>

\* line 191
ValCheck ==
  /\ pc = "val_check"
  /\ pc' = IF (epoch + 1) % VALIDATION_INTERVAL = 0 THEN "v_enter" ELSE "save_check"
  /\ UNCHANGED <<epoch, loaders, i, labels, fake_audio_data, losses, totals,
                 rets, params, grads, scheds, modes, outs, events, phaseLog,
                 valForwards, seen, n_smooth, sl>>

\* lines 195-197
PrintVal ==
  /\ pc = "print_val"
  /\ val_ret' = <<>>
  /\ pc' = "sample"
  /\ UNCHANGED <<epoch, loaders, i, labels, fake_audio_data, losses, totals,
                 train_ret, params, grads, scheds, modes, outs, events, phaseLog,
                 valForwards, seen, n_smooth, sl>>

\* lines 199-207: one generator forward on examples_to_generate latent vectors,
\* outside validate's torch.no_grad(); each example is detached and plotted
Sample ==
  /\ pc = "sample"
  /\ valForwards' = valForwards \cup {<<"generator", grad_enabled, "sample">>}
  /\ plotted' = plotted \o [k \in 1..examples_to_generate |-> <<k, epoch + 1>>]
  /\ phaseLog' = Append(phaseLog, <<"sample", epoch + 1>>)
  /\ pc' = "save_check"
  /\ UNCHANGED <<epoch, loaders, i, labels, fake_audio_data, losses, totals,
                 rets, params, grads, scheds, modes, saved, events, seen,
                 n_smooth, sl>>

\* line 210 with the 0-based epoch
SaveCheck_ZeroBased ==
  /\ pc = "save_check"
  /\ pc' = IF epoch % SAVE_INTERVAL = 0 THEN "save" ELSE "loop"
  /\ UNCHANGED <<epoch, loaders, i, labels, fake_audio_data, losses, totals,
                 rets, params, grads, scheds, modes, outs, events, phaseLog,
                 valForwards, seen, n_smooth, sl>>

\* line 210
SaveCheck ==
  /\ pc = "save_check"
  /\ pc' = IF (epoch + 1) % SAVE_INTERVAL = 0 THEN "save" ELSE "loop"
  /\ UNCHANGED <<epoch, loaders, i, labels, fake_audio_data, losses, totals,
                 rets, params, grads, scheds, modes, outs, events, phaseLog,
                 valForwards, seen, n_smooth, sl>>

\* line 211 saving the discriminator as well
SaveModel_Both ==
  /\ pc = "save"
  /\ saved' = saved \o <<[model |-> "generator", params |-> gParams,
                           tag |-> "DCGAN", epoch |-> epoch + 1],
                          [model |-> "discriminator", params |-> dParams,
                           tag |-> "DCGAN", epoch |-> epoch + 1]>>
  /\ phaseLog' = Append(phaseLog, <<"checkpoint", epoch + 1>>)
  /\ pc' = "loop"
  /\ UNCHANGED <<epoch, loaders, i, labels, fake_audio_data, losses, totals,
                 rets, params, grads, scheds, modes, plotted, events,
                 valForwards, seen, n_smooth, sl>>

\* line 211: save_model(generator, "DCGAN")
SaveModel ==
  /\ pc = "save"
  /\ saved' = Append(saved, [model |-> "generator", params |-> gParams,
                             tag |-> "DCGAN", epoch |-> epoch + 1])
  /\ phaseLog' = Append(phaseLog, <<"checkpoint", epoch + 1>>)
  /\ pc' = "loop"
  /\ UNCHANGED <<epoch, loaders, i, labels, fake_audio_data, losses, totals,
                 rets, params, grads, scheds, modes, plotted, events,
                 valForwards, seen, n_smooth, sl>>

\* ----------------------------------------------------------------- Next
Next ==
  \/ LoopNext \/ LoopExit
  \/ TrainEnter \/ TrainIter \/ TrainLoopExit
  \/ GZeroGrad \/ GenFake \/ GLoss \/ GBackward \/ GStep \/ GSchedStep
  \/ GAccumulate
  \/ DZeroGrad \/ Detach \/ DLoss \/ DBackward \/ DStep \/ DSchedStep
  \/ DAccumulate
  \/ TrainReturn \/ TrainReturnRaise \/ PrintTrain \/ ValCheck
  \/ ValEnter \/ ValIter \/ ValLoopExit \/ ValGen \/ ValGLoss \/ ValGAccumulate
  \/ ValDLoss \/ ValDAccumulate \/ ValReturn \/ ValReturnRaise
  \/ PrintVal \/ Sample \/ SaveCheck \/ SaveModel

Spec == Init /\ [][Next]_vars

\* The scheduling of a single-threaded Python program: the statement the
\* program counter is at is executed.
FairSpec == Spec /\ WF_vars(Next)

\* ------------------------------------- smooth_labels called on its own
\* Any tensor of label-like values may be passed, homogeneous or not.
LabelValues == {0, Scale \div 2, Scale}
Tensors == UNION {[1..n -> LabelValues] : n \in 1..MaxLen}

InitLabels ==
  /\ InitLoop
  /\ train_loader = 0
  /\ val_loader = 0
  /\ sl_in \in Tensors
  /\ sl_out = <<>>

SmoothCall ==
  /\ sl_out = <<>>
  /\ \E rand \in Noise(Len(sl_in)) : sl_out' = smooth_labels(sl_in, rand)
  /\ UNCHANGED <<loopVars, sl_in>>

NextLabels == SmoothCall

SpecLabels == InitLabels /\ [][NextLabels]_vars

\* ---------------------------------------------------------- vocabulary
TrainBodyPcs == {"t_gzero", "t_gen", "t_gloss", "t_gback", "t_gstep", "t_gsched",
                 "t_gacc", "t_dzero", "t_detach", "t_dloss", "t_dback",
                 "t_dstep", "t_dsched", "t_dacc"}
\* where the label tensors of a training batch are bound
TrainLabelPcs == {"t_gzero", "t_gen", "t_gloss", "t_gback", "t_gstep",
                  "t_gsched", "t_gacc", "t_dzero", "t_detach", "t_dloss"}
\* where the label tensors of a validation batch are bound
ValLabelPcs == {"v_gen", "v_gloss", "v_gacc", "v_dloss"}
\* the validation transition: validate and the sample generation after it
ValTransitionPcs == {"v_enter", "v_iter", "v_gen", "v_gloss", "v_gacc", "v_dloss",
                     "v_dacc", "v_ret", "print_val", "sample"}

\* 0.02 in fixed point
NoiseBound == (2 * Scale) \div 100

IsPrefix(s, t) == Len(s) <= Len(t) /\ SubSeq(t, 1, Len(s)) = s
Occurrences(s, x) == Cardinality({k \in 1..Len(s) : s[k] = x})
InRange(t, lo, hi) == \A k \in 1..Len(t) : lo <= t[k] /\ t[k] <= hi

\* training batches begun so far in the run
BatchesStarted ==
  CASE pc = "t_enter" -> epoch * train_loader
    [] pc = "t_iter" -> epoch * train_loader + i
    [] pc \in TrainBodyPcs -> epoch * train_loader + i + 1
    [] OTHER -> (epoch + 1) * train_loader

\* training batches finished so far in the run
BatchesDone ==
  CASE pc = "t_enter" -> epoch * train_loader
    [] pc \in TrainBodyPcs \cup {"t_iter"} -> epoch * train_loader + i
    [] OTHER -> (epoch + 1) * train_loader

\* ------------------------------------------------------------------ C1
BatchOrder == <<"generate", "g_backward", "g_step", "g_sched",
                "detach", "d_backward", "d_step", "d_sched">>

\* C1: in every training batch the events happen in the one order generate,
\* generator backward, optimizer_G step, scheduler_G step, detach,
\* discriminator backward, optimizer_D step, scheduler_D step; the
\* discriminator loss is computed on the fake batch this batch generated
\* before the generator's step; every optimizer and scheduler has been
\* stepped exactly once per batch.
C1_BatchOrder ==
  /\ pc \in TrainBodyPcs => IsPrefix(events, BatchOrder)
  /\ pc = "t_dacc" => events = BatchOrder
  /\ pc \in {"t_dback", "t_dstep", "t_dsched", "t_dacc"} =>
       /\ d_loss[1].fake.epoch = epoch
       /\ d_loss[1].fake.batch = i
       /\ d_loss[1].fake.gen = gParams - 1
       /\ ~d_loss[1].fake.attached
  /\ pc \in TrainBodyPcs =>
       /\ gParams = BatchesDone + Occurrences(events, "g_step")
       /\ gSched = BatchesDone + Occurrences(events, "g_sched")
       /\ dParams = BatchesDone + Occurrences(events, "d_step")
       /\ dSched = BatchesDone + Occurrences(events, "d_sched")
  /\ pc \notin TrainBodyPcs =>
       /\ gParams = BatchesDone
       /\ gSched = BatchesDone
       /\ dParams = BatchesDone
       /\ dSched = BatchesDone

\* the second batch of the second epoch has run all eight events
C1_Witness ==
  /\ pc = "t_dacc"
  /\ epoch = 1
  /\ i = 1
  /\ events = BatchOrder
  /\ dParams = 2 * train_loader

\* ------------------------------------------------------------------ C2
\* C2: every label value passed to the criterion, in training (after
\* smooth_labels) and in validation, lies in [0, 1].
C2_LabelsInUnitInterval ==
  /\ InRange(real_labels, 0, Scale)
  /\ InRange(fake_labels, 0, Scale)

\* ------------------------------------------------------------------ C3
\* C3: smooth_labels takes the direction from element 0 alone: when it is 1
\* every element has noise in [0, 0.02) added, otherwise every element has
\* noise in [0, 0.02) subtracted.  So an all-ones tensor gives no value below
\* 1 - 0.02, an all-zeros tensor gives no value above 0.02, and in a mixed
\* tensor of ones and zeros the elements that differ from element 0 move the
\* other way than a tensor of their own value would move them.
C3_SmoothDirection ==
  sl_out # <<>> =>
    /\ Len(sl_out) = Len(sl_in)
    /\ sl_in[1] = Scale =>
         \A k \in 1..Len(sl_in) :
           sl_out[k] - sl_in[k] >= 0 /\ sl_out[k] - sl_in[k] < NoiseBound
    /\ sl_in[1] # Scale =>
         \A k \in 1..Len(sl_in) :
           sl_in[k] - sl_out[k] >= 0 /\ sl_in[k] - sl_out[k] < NoiseBound
    /\ sl_in = ones(Len(sl_in)) =>
         \A k \in 1..Len(sl_in) : sl_out[k] >= Scale - NoiseBound
    /\ sl_in = zeros(Len(sl_in)) =>
         \A k \in 1..Len(sl_in) : sl_out[k] <= NoiseBound
    /\ \A k \in 1..Len(sl_in) :
         /\ (sl_in[1] = Scale /\ sl_in[k] = 0) => sl_out[k] >= 0
         /\ (sl_in[1] = 0 /\ sl_in[k] = Scale) => sl_out[k] <= Scale

\* a mixed tensor whose zero got noise added and so left [0, 0 - noise]
C3_Witness ==
  /\ sl_out # <<>>
  /\ sl_in[1] = Scale
  /\ \E k \in 1..Len(sl_in) : sl_in[k] = 0 /\ sl_out[k] > 0

\* ------------------------------------------------------------------ C4
IsSmoothed(t, base) == \E rand \in Noise(Len(t)) : t = smooth_labels(base, rand)

C5_MeansOfThisCall ==
  /\ pc \in {"t_iter", "v_iter"} =>
       /\ seen_n = i
       /\ total_g_loss = seen_g
       /\ total_d_loss = seen_d
       /\ i = 0 => (total_g_loss = 0 /\ total_d_loss = 0)
  /\ pc = "print_train" =>
       /\ train_loader >= 1
       /\ seen_n = train_loader
       /\ train_ret = <<[num |-> seen_g, den |-> train_loader],
                        [num |-> seen_d, den |-> train_loader]>>
  /\ pc = "print_val" =>
       /\ val_loader >= 1
       /\ seen_n = val_loader
       /\ val_ret = <<[num |-> seen_g, den |-> val_loader],
                      [num |-> seen_d, den |-> val_loader]>>

\* validation of the second epoch returns means that differ from the totals
\* the calls before it could have left
C5_Witness ==
  /\ pc = "print_val"
  /\ epoch = 1
  /\ val_loader = 2
  /\ val_ret[1].num = 0
  /\ val_ret[2].num = 2 * MaxLoss

\* ------------------------------------------------------------------ C6
\* C6: every checkpoint saves the generator under the tag "DCGAN" and nothing
\* else; the parameters saved are those left by all training batches of the
\* epoch of the checkpoint.
C6_OnlyGeneratorSaved ==
  /\ Len(saved) = Cardinality({k \in 1..Len(phaseLog) : phaseLog[k][1] = "checkpoint"})
  /\ \A k \in 1..Len(saved) :
       /\ saved[k].model = "generator"
       /\ saved[k].tag = "DCGAN"
       /\ saved[k].params = saved[k].epoch * train_loader

\* the checkpoint of the last epoch, after 2 epochs of 2 batches
C6_Witness ==
  /\ Len(saved) = 1
  /\ train_loader = 2
  /\ saved[1].params = 4
  /\ saved[1].epoch = N_EPOCHS

\* ------------------------------------------------------------------ C7
RECURSIVE ExpectedPhases(_)
\* the phases of epochs 1..e, by the two interval rules
ExpectedPhases(e) ==
  IF e = 0 THEN <<>>
  ELSE ExpectedPhases(e - 1)
       \o <<<<"train", e>>>>
       \o (IF e % VALIDATION_INTERVAL = 0
             THEN <<<<"validate", e>>, <<"sample", e>>>> ELSE <<>>)
       \o (IF e % SAVE_INTERVAL = 0 THEN <<<<"checkpoint", e>>>> ELSE <<>>)

\* C7: validation, followed by the generation of 3 samples, runs in the
\* epochs e (1-based) that are multiples of VALIDATION_INTERVAL and the
\* checkpoint in those that are multiples of SAVE_INTERVAL, in the order
\* training, validation, checkpoint; with N_EPOCHS = 2 that is validation
\* after each epoch and one checkpoint after the last.
C7_PhaseSchedule ==
  /\ IsPrefix(phaseLog, ExpectedPhases(N_EPOCHS))
  /\ Len(plotted) = examples_to_generate
                      * Cardinality({k \in 1..Len(phaseLog) : phaseLog[k][1] = "sample"})
  /\ pc = "done" =>
       phaseLog = << <<"train", 1>>, <<"validate", 1>>, <<"sample", 1>>,
                     <<"train", 2>>, <<"validate", 2>>, <<"sample", 2>>,
                     <<"checkpoint", 2>> >>

\* a complete run
C7_Witness ==
  /\ pc = "done"
  /\ Len(phaseLog) = 7
  /\ Len(plotted) = 6
  /\ Len(saved) = 1

\* ------------------------------------------------------------------ C8
\* C8: in the validation transition (validate and the sample generation
\* after it) every forward pass of the generator and of the discriminator
\* runs with gradient tracking disabled, and the parameters and the
\* optimizer/scheduler steps of both networks stay what the training batches
\* before the transition left.
C8_AllForwardsNoGrad ==
  /\ \A f \in valForwards : f[2] = FALSE
  /\ pc \in ValTransitionPcs =>
       /\ gParams = (epoch + 1) * train_loader
       /\ dParams = (epoch + 1) * train_loader
       /\ gSched = (epoch + 1) * train_loader
       /\ dSched = (epoch + 1) * train_loader

\* C8, amended: every forward pass inside validate runs with gradient
\* tracking disabled, the generator forward of the sample generation runs
\* with it enabled; no step of the transition changes the parameters, the
\* gradients or the optimizer/scheduler steps of either network.
C8_ValidationFrame ==
  /\ [](\A f \in valForwards :
          /\ f[3] = "validate" => f[2] = FALSE
          /\ f[3] = "sample" => f[2] = TRUE)
  /\ [][(pc \in ValTransitionPcs) => UNCHANGED <<params, grads, scheds>>]_vars

\* the sample generation of the second epoch has run after a validation with
\* forward passes of both networks
C8_Witness ==
  /\ pc = "save_check"
  /\ epoch = 1
  /\ <<"generator", TRUE, "sample">> \in valForwards
  /\ <<"generator", FALSE, "validate">> \in valForwards
  /\ <<"discriminator", FALSE, "validate">> \in valForwards

\* ------------------------------------------------------------------ C9
TrainEpochs == SelectSeq(phaseLog, LAMBDA ph : ph[1] = "train")

\* C9: with finite loaders training_loop stops, after the validation and
\* the checkpoint of the last epoch, unless an operation raised; it has then
\* run train_epoch for the epochs 1..N_EPOCHS in order, whatever the losses.
C9_Terminates ==
  /\ <>(pc \in {"done", "raised"})
  /\ [](pc = "done" =>
          /\ TrainEpochs = [e \in 1..N_EPOCHS |-> <<"train", e>>]
          /\ phaseLog[Len(phaseLog)] = <<"checkpoint", N_EPOCHS>>
          /\ ~ENABLED Next)
  /\ [](pc = "raised" => (train_loader = 0 \/ val_loader = 0))

\* a run that ended without raising
C9_Witness ==
  /\ pc = "done"
  /\ Len(TrainEpochs) = N_EPOCHS
  /\ train_loader = 2
  /\ val_loader = 2

\* ----------------------------------------------------------------- C10
\* C10: optimizer_G.step changes the generator's parameters only and finds in
\* their .grad this batch's generator loss only; optimizer_D.step changes the
\* discriminator's parameters only and finds in their .grad this batch's
\* discriminator loss only: what the generator's backward pass left on the
\* discriminator is cleared before the discriminator loss is backpropagated,
\* the detached fake batch sends nothing to the generator, and the
\* generator's .grad is cleared before the next generator backward pass.
C10_OwnGradientsOnly ==
  /\ [](/\ pc = "t_gback" => gGrad = {}
        /\ pc = "t_gstep" => gGrad = {<<"g_loss", epoch, i>>}
        /\ pc \in {"t_gstep", "t_gsched", "t_gacc", "t_dzero"} =>
             <<"g_loss", epoch, i>> \in dGrad
        /\ pc = "t_dback" => dGrad = {}
        /\ pc = "t_dstep" => dGrad = {<<"d_loss", epoch, i>>}
        /\ \A t \in gGrad : t[1] = "g_loss")
  /\ [][/\ gParams' # gParams => (pc = "t_gstep" /\ dParams' = dParams)
        /\ dParams' # dParams => (pc = "t_dstep" /\ gParams' = gParams)]_vars

\* the discriminator step of a second batch, whose generator backward pass
\* had left a gradient on the discriminator next to the previous batch's
C10_Witness ==
  /\ pc = "t_dstep"
  /\ i = 1
  /\ dGrad = {<<"d_loss", epoch, 1>>}
  /\ gGrad = {<<"g_loss", epoch, 1>>}

====
